---- MODULE Spec2Model ----
(***************************************************************************)
(* The todo repository of internal/db: one SQLite table "todos", its       *)
(* schema setup (New, Migrate, addCategoryColumn), the five CRUD           *)
(* operations, and the HTTP handlers in front of them.                     *)
(*                                                                         *)
(* The store is the record db: the schema (table, columns, CHECK           *)
(* constraints, indexes), the rows keyed by rowid, and seq, the            *)
(* sqlite_sequence entry that AUTOINCREMENT keeps for the table.  Every    *)
(* repository method is an operator from the store and its arguments to    *)
(* the store afterwards and the values the method returns; the actions     *)
(* apply them.  The wall clock now counts ticks; datetime('now') has a     *)
(* resolution of one second, TicksPerSec ticks.  The clock never runs      *)
(* backwards.  A run of New may fail at any of its steps and leaves what   *)
(* the statements before it committed; CRUD statements fail only on what   *)
(* the schema rejects (a missing table or column, a CHECK constraint).     *)
(*                                                                         *)
(* Spec runs the repository calls one at a time and whole; ConcSpec runs   *)
(* the statements of concurrent callers in any order; HttpSpec sends every *)
(* request through the handlers.                                           *)
(***************************************************************************)
EXTENDS Integers, Sequences, FiniteSets, TLC

\* ---------------------------------------------------------------- bounds

\* The largest rowid an INSERT may assign (CreateTodo is disabled beyond it).
MaxId == 2

\* How many CRUD statements that change the store a run explores.
MaxWrites == 2

\* How many ticks the wall clock advances during a run.
MaxTick == 2

\* Clock ticks per second: datetime('now') truncates to whole seconds.
TicksPerSec == 2

\* ------------------------------------------------------- optional values

\* A nil pointer, and a pointer to v.
None == <<>>

Some(v) == <<v>>

\* ------------------------------------------------------- package model

StatusPending == "pending"

StatusInProgress == "in_progress"

StatusDone == "done"

ValidStatuses == {StatusPending, StatusInProgress, StatusDone}

CategoryPersonal == "personal"

CategoryWork == "work"

CategoryOther == "other"

ValidCategories == {CategoryPersonal, CategoryWork, CategoryOther}

\* time.Time{}: what time.Parse returns with an error; before every real time.
ZeroTime == -1

\* model.Todo{}: the zero value returned beside every error.
ZeroTodo ==
    [ID |-> 0, Title |-> "", Description |-> "", Status |-> "", Category |-> "",
     ProgressPercent |-> 0, CreatedAt |-> ZeroTime, UpdatedAt |-> ZeroTime]

\* ---------------------------------------------------------------- errors

NoErr == "nil"

ErrNotFound == "not found"

ErrMkdir == "create db directory"

ErrOpen == "open database"

ErrWAL == "enable WAL"

ErrExecSchema == "execute schema"

ErrTableInfo == "add category column: query table info"

ErrCategoryIndex == "add category column: create category index"

ErrCategoryMigration == "add category column: execute category migration"

ErrInsert == "insert todo"

ErrScan == "scan todo"

ErrQuery == "query todos"

ErrUpdate == "update todo"

ErrDelete == "delete todo"

\* ---------------------------------------------------------------- faults

\* The steps of New, in the order it takes them: the directory, the open,
\* the WAL pragma, the two statements of Migrate's schema script, and the
\* inspection, the ALTER and the index of addCategoryColumn.
StepMkdir == "mkdir"

StepOpen == "open"

StepWAL == "journal_mode"

StepCreateTable == "create table"

StepCreateIndexStatus == "create index status"

StepTableInfo == "table_info"

StepAlter == "alter table"

StepCreateIndexCategory == "create index category"

\* No step fails.
NoFault == "none"

\* The step at which a run of New fails (an I/O error, a full disk, a
\* killed process), if it gets that far.
Faults ==
    {NoFault, StepMkdir, StepOpen, StepWAL, StepCreateTable,
     StepCreateIndexStatus, StepTableInfo, StepAlter, StepCreateIndexCategory}

\* ---------------------------------------------------------------- schema

\* The columns of the CREATE TABLE statement of Migrate.
BaseColumns ==
    {"id", "title", "description", "status", "progress_percent",
     "created_at", "updated_at"}

\* The CHECK constraints of the CREATE TABLE statement of Migrate.
BaseChecks == {"status", "progress_percent"}

IdxStatus == "idx_todos_status"

IdxCategory == "idx_todos_category"

\* A store file with no table in it.
EmptyStore ==
    [table |-> FALSE, columns |-> {}, checks |-> {}, indexes |-> {},
     rows |-> {}, seq |-> 0]

\* CREATE TABLE IF NOT EXISTS todos (...): a no-op on a store that holds the table.
CreateTableIfNotExists(d) ==
    IF d.table THEN d
    ELSE [d EXCEPT !.table = TRUE, !.columns = BaseColumns, !.checks = BaseChecks,
                   !.rows = {}, !.seq = 0]

\* CREATE INDEX IF NOT EXISTS name ON todos(...).
CreateIndexIfNotExists(d, name) == [d EXCEPT !.indexes = @ \cup {name}]

\* PRAGMA table_info(todos): the names of the table's columns.
TableInfo(d) == d.columns

\* The ALTER statement with DEFAULT '' and no CHECK.
AlterAddCategoryEmptyDefault(d) ==
    IF ~d.table \/ "category" \in d.columns
    THEN [db |-> d, err |-> ErrCategoryMigration]
    ELSE [db |-> [d EXCEPT !.columns = @ \cup {"category"},
                           !.rows = {r @@ [category |-> ""] : r \in d.rows}],
          err |-> NoErr]

\* ALTER TABLE todos ADD COLUMN category TEXT NOT NULL DEFAULT 'personal' CHECK(...):
\* every row already in the table reads the default in the new column.  The
\* statement fails on a table that has a column of that name.
AlterAddCategory(d) ==
    IF ~d.table \/ "category" \in d.columns
    THEN [db |-> d, err |-> ErrCategoryMigration]
    ELSE [db |-> [d EXCEPT !.columns = @ \cup {"category"},
                           !.checks = @ \cup {"category"},
                           !.rows = {r @@ [category |-> CategoryPersonal] :
                                       r \in d.rows}],
          err |-> NoErr]

\* addCategoryColumn without the inspection: an unconditional ALTER.
addCategoryColumnUnconditional(d, f) ==
    LET alter == IF f = StepAlter
                 THEN [db |-> d, err |-> ErrCategoryMigration]
                 ELSE AlterAddCategory(d)
    IN IF alter.err # NoErr
       THEN alter
       ELSE IF f = StepCreateIndexCategory
       THEN [db |-> alter.db, err |-> ErrCategoryIndex]
       ELSE [db |-> CreateIndexIfNotExists(alter.db, IdxCategory), err |-> NoErr]

\* Repository.addCategoryColumn: inspect the columns, then add the column and
\* its index unless a column named category is there.  Each statement
\* commits on its own: a failure leaves what the statements before it did.
addCategoryColumn(d, f) ==
    IF f = StepTableInfo THEN [db |-> d, err |-> ErrTableInfo]
    ELSE IF "category" \in TableInfo(d) THEN [db |-> d, err |-> NoErr]
    ELSE LET alter == IF f = StepAlter
                      THEN [db |-> d, err |-> ErrCategoryMigration]
                      ELSE AlterAddCategory(d)
         IN IF alter.err # NoErr
            THEN alter
            ELSE IF f = StepCreateIndexCategory
            THEN [db |-> alter.db, err |-> ErrCategoryIndex]
            ELSE [db |-> CreateIndexIfNotExists(alter.db, IdxCategory),
                  err |-> NoErr]

\* Repository.Migrate: the two statements of the schema script, then
\* addCategoryColumn.
Migrate(d, f) ==
    IF f = StepCreateTable THEN [db |-> d, err |-> ErrExecSchema]
    ELSE IF f = StepCreateIndexStatus
    THEN [db |-> CreateTableIfNotExists(d), err |-> ErrExecSchema]
    ELSE addCategoryColumn(
             CreateIndexIfNotExists(CreateTableIfNotExists(d), IdxStatus), f)

\* The values of a *Repository.
NilRepo == "nil repository"

OpenRepo == "repository"

\* New that logs a failed Migrate and returns the repository all the same.
NewIgnoresMigrateError(d, f) ==
    IF f = StepMkdir THEN [db |-> d, repo |-> NilRepo, err |-> ErrMkdir, migrated |-> FALSE]
    ELSE IF f = StepOpen THEN [db |-> d, repo |-> NilRepo, err |-> ErrOpen, migrated |-> FALSE]
    ELSE IF f = StepWAL THEN [db |-> d, repo |-> NilRepo, err |-> ErrWAL, migrated |-> FALSE]
    ELSE LET m == Migrate(d, f)
         IN [db |-> m.db, repo |-> OpenRepo, err |-> NoErr,
             migrated |-> m.err = NoErr]

\* New: the directory, the open, the WAL pragma, then Migrate; the error of
\* a failed step and a nil repository, or the repository and a nil error.
\* migrated tells whether Migrate ran and returned nil.
New(d, f) ==
    IF f = StepMkdir THEN [db |-> d, repo |-> NilRepo, err |-> ErrMkdir, migrated |-> FALSE]
    ELSE IF f = StepOpen THEN [db |-> d, repo |-> NilRepo, err |-> ErrOpen, migrated |-> FALSE]
    ELSE IF f = StepWAL THEN [db |-> d, repo |-> NilRepo, err |-> ErrWAL, migrated |-> FALSE]
    ELSE LET m == Migrate(d, f)
         IN IF m.err # NoErr
            THEN [db |-> m.db, repo |-> NilRepo, err |-> m.err, migrated |-> FALSE]
            ELSE [db |-> m.db, repo |-> OpenRepo, err |-> NoErr, migrated |-> TRUE]

\* ------------------------------------------------------------ timestamps

\* datetime('now'): the wall clock in whole seconds.
DatetimeNow(t) == t \div TicksPerSec

\* strftime('%Y-%m-%dT%H:%M:%SZ', ts): the stored time as RFC 3339 text in UTC.
Strftime(ts) == <<ts, "Z">>

\* time.Parse(time.RFC3339, text) with the error dropped: the zero time for
\* text that is not in the layout.
TimeParse(text) ==
    IF Len(text) = 2 /\ text[2] = "Z" THEN text[1] ELSE ZeroTime

\* ------------------------------------------------------------- statements

\* The constraints with CHECK(progress_percent >= 0) alone on that column.
ChecksHoldNoUpperBound(d, vals) ==
    /\ "status" \in d.checks => vals.status \in ValidStatuses
    /\ "progress_percent" \in d.checks => vals.progress_percent >= 0
    /\ "category" \in d.checks => vals.category \in ValidCategories

\* The CHECK constraints of the table, on the column values vals.
ChecksHold(d, vals) ==
    /\ "status" \in d.checks => vals.status \in ValidStatuses
    /\ "progress_percent" \in d.checks =>
           (vals.progress_percent >= 0 /\ vals.progress_percent <= 100)
    /\ "category" \in d.checks => vals.category \in ValidCategories

\* The rowids in the table.
Rowids(d) == {r.id : r \in d.rows}

\* The largest element of a finite set of naturals, 0 for the empty set.
RECURSIVE MaxOf(_)
MaxOf(S) ==
    IF S = {} THEN 0
    ELSE LET x == CHOOSE y \in S : TRUE
             m == MaxOf(S \ {x})
         IN IF x > m THEN x ELSE m

\* INTEGER PRIMARY KEY without AUTOINCREMENT: one more than the largest
\* rowid in the table.
NextRowidNoAutoincrement(d) == MaxOf(Rowids(d)) + 1

\* INTEGER PRIMARY KEY AUTOINCREMENT: one more than the largest rowid the
\* table has ever held (sqlite_sequence), never a rowid of a deleted row.
NextRowid(d) == MaxOf(Rowids(d) \cup {d.seq}) + 1

\* INSERT INTO todos (title, description, status, category, progress_percent)
\* VALUES (?, ?, ?, ?, ?) at clock t; created_at and updated_at take their
\* column default datetime('now').  A failed statement changes nothing.
Insert(d, t, title, description, status, category, progress) ==
    LET id == NextRowid(d)
        row == [id |-> id, title |-> title, description |-> description,
                status |-> status, category |-> category,
                progress_percent |-> progress,
                created_at |-> DatetimeNow(t), updated_at |-> DatetimeNow(t)]
    IN IF ~d.table \/ "category" \notin d.columns \/ ~ChecksHold(d, row)
       THEN [db |-> d, err |-> ErrInsert, id |-> 0]
       ELSE [db |-> [d EXCEPT !.rows = @ \cup {row}, !.seq = id],
             err |-> NoErr, id |-> id]

\* SELECT ... FROM todos WHERE id = ?: the rows with that primary key.
SelectById(d, id) == {r \in d.rows : r.id = id}

\* The eight select columns of GetTodo and ListTodos scanned into a Todo;
\* both timestamps pass through strftime in the store and time.Parse here.
ScanRow(r) ==
    [ID |-> r.id, Title |-> r.title, Description |-> r.description,
     Status |-> r.status, Category |-> r.category,
     ProgressPercent |-> r.progress_percent,
     CreatedAt |-> TimeParse(Strftime(r.created_at)),
     UpdatedAt |-> TimeParse(Strftime(r.updated_at))]

\* The select of GetTodo and ListTodos names the category column: it fails
\* on a table without it.
SelectFails(d) == ~d.table \/ "category" \notin d.columns

\* scanTodo without the errors.Is(err, sql.ErrNoRows) branch: no row is a
\* scan error like any other.
scanTodoNoRowsUnmapped(d, found) ==
    IF SelectFails(d) \/ found = {} THEN [todo |-> ZeroTodo, err |-> ErrScan]
    ELSE [todo |-> ScanRow(CHOOSE r \in found : TRUE), err |-> NoErr]

\* scanTodo on the row of GetTodo's query: ErrNotFound for sql.ErrNoRows.
scanTodo(d, found) ==
    IF SelectFails(d) THEN [todo |-> ZeroTodo, err |-> ErrScan]
    ELSE IF found = {} THEN [todo |-> ZeroTodo, err |-> ErrNotFound]
    ELSE [todo |-> ScanRow(CHOOSE r \in found : TRUE), err |-> NoErr]

\* Repository.GetTodo.
GetTodo(d, id) == scanTodo(d, SelectById(d, id))

\* CreateTodo that never reads req.ProgressPercent.
CreateTodoIgnoresProgress(d, t, req) ==
    LET status == IF req.Status # "" THEN req.Status ELSE StatusPending
        category == IF req.Category # "" THEN req.Category ELSE CategoryPersonal
        ins == Insert(d, t, req.Title, req.Description, status, category, 0)
    IN IF ins.err # NoErr
       THEN [db |-> d, todo |-> ZeroTodo, err |-> ins.err]
       ELSE [db |-> ins.db] @@ GetTodo(ins.db, ins.id)

\* The first statement of CreateTodo at clock t: the defaults and the insert.
CreateTodoInsert(d, t, req) ==
    LET status == IF req.Status # "" THEN req.Status ELSE StatusPending
        category == IF req.Category # "" THEN req.Category ELSE CategoryPersonal
        progress == IF req.ProgressPercent # None THEN req.ProgressPercent[1] ELSE 0
    IN Insert(d, t, req.Title, req.Description, status, category, progress)

\* Repository.CreateTodo at clock t with no other caller between its
\* statements: the insert, then the re-read of the inserted id.
CreateTodo(d, t, req) ==
    LET ins == CreateTodoInsert(d, t, req)
    IN IF ins.err # NoErr
       THEN [db |-> d, todo |-> ZeroTodo, err |-> ins.err]
       ELSE [db |-> ins.db] @@ GetTodo(ins.db, ins.id)

\* Repository.DeleteTodo: DELETE FROM todos WHERE id = ?, then the
\* affected-row count.
DeleteTodo(d, id) ==
    IF ~d.table THEN [db |-> d, err |-> ErrDelete]
    ELSE LET hit == SelectById(d, id)
         IN IF Cardinality(hit) = 0
            THEN [db |-> d, err |-> ErrNotFound]
            ELSE [db |-> [d EXCEPT !.rows = @ \ hit], err |-> NoErr]

\* SetClauses with a text field taken as supplied only when it is not empty.
SetClausesSkipEmpty(req) ==
    (IF req.Title # None /\ req.Title # Some("")
     THEN << <<"title", req.Title[1]>> >> ELSE <<>>)
    \o (IF req.Description # None /\ req.Description # Some("")
        THEN << <<"description", req.Description[1]>> >> ELSE <<>>)
    \o (IF req.Status # None THEN << <<"status", req.Status[1]>> >> ELSE <<>>)
    \o (IF req.Category # None THEN << <<"category", req.Category[1]>> >> ELSE <<>>)
    \o (IF req.ProgressPercent # None
        THEN << <<"progress_percent", req.ProgressPercent[1]>> >> ELSE <<>>)

\* The SET clauses of UpdateTodo with their arguments, in the order the code
\* appends them: one <<column, value>> for every field whose pointer is not nil.
SetClauses(req) ==
    (IF req.Title # None THEN << <<"title", req.Title[1]>> >> ELSE <<>>)
    \o (IF req.Description # None
        THEN << <<"description", req.Description[1]>> >> ELSE <<>>)
    \o (IF req.Status # None THEN << <<"status", req.Status[1]>> >> ELSE <<>>)
    \o (IF req.Category # None THEN << <<"category", req.Category[1]>> >> ELSE <<>>)
    \o (IF req.ProgressPercent # None
        THEN << <<"progress_percent", req.ProgressPercent[1]>> >> ELSE <<>>)

\* Row r after the assignments of an UPDATE statement, left to right.
RECURSIVE ApplySet(_, _)
ApplySet(r, clauses) ==
    IF clauses = <<>> THEN r
    ELSE ApplySet([r EXCEPT ![clauses[1][1]] = clauses[1][2]], Tail(clauses))

\* UPDATE todos SET <clauses> WHERE id = ?: the statement fails on a column
\* the table lacks and on a CHECK constraint of a row it rewrites; a failed
\* statement changes nothing.  affected counts the rows WHERE matched.
Update(d, clauses, id) ==
    LET hit == SelectById(d, id)
        new == {ApplySet(r, clauses) : r \in hit}
    IN IF \/ ~d.table
          \/ \E i \in 1..Len(clauses) : clauses[i][1] \notin d.columns
          \/ \E r \in new : ~ChecksHold(d, r)
       THEN [db |-> d, err |-> ErrUpdate, affected |-> 0]
       ELSE [db |-> [d EXCEPT !.rows = (@ \ hit) \cup new],
             err |-> NoErr, affected |-> Cardinality(hit)]

\* UpdateTodo without the early return for an empty clause list: the
\* statement then sets updated_at alone.
UpdateTodoAlwaysWrites(d, t, id, req) ==
    LET upd == Update(d, Append(SetClauses(req),
                                <<"updated_at", DatetimeNow(t)>>), id)
    IN IF upd.err # NoErr
       THEN [db |-> d, todo |-> ZeroTodo, err |-> upd.err]
       ELSE IF upd.affected = 0
       THEN [db |-> upd.db, todo |-> ZeroTodo, err |-> ErrNotFound]
       ELSE [db |-> upd.db] @@ GetTodo(upd.db, id)

\* The UPDATE statement of UpdateTodo at clock t, for a request that
\* supplies a field: the clauses of the request and updated_at.
UpdateTodoExec(d, t, id, req) ==
    Update(d, Append(SetClauses(req), <<"updated_at", DatetimeNow(t)>>), id)

\* Repository.UpdateTodo at clock t with no other caller between its
\* statements.
UpdateTodo(d, t, id, req) ==
    LET setClauses == SetClauses(req)
    IN IF Len(setClauses) = 0
       THEN [db |-> d] @@ GetTodo(d, id)
       ELSE LET upd == UpdateTodoExec(d, t, id, req)
            IN IF upd.err # NoErr
               THEN [db |-> d, todo |-> ZeroTodo, err |-> upd.err]
               ELSE IF upd.affected = 0
               THEN [db |-> upd.db, todo |-> ZeroTodo, err |-> ErrNotFound]
               ELSE [db |-> upd.db] @@ GetTodo(upd.db, id)

\* The WHERE conditions of ListTodos with their arguments: one
\* <<column, value>> for every filter that is not nil.
Conditions(status, category) ==
    (IF status # None THEN << <<"status", status[1]>> >> ELSE <<>>)
    \o (IF category # None THEN << <<"category", category[1]>> >> ELSE <<>>)

\* The conditions joined with OR.
WhereAny(r, conditions) ==
    \/ Len(conditions) = 0
    \/ \E i \in 1..Len(conditions) : r[conditions[i][1]] = conditions[i][2]

\* The conditions joined with AND.
Where(r, conditions) ==
    \A i \in 1..Len(conditions) : r[conditions[i][1]] = conditions[i][2]

\* ORDER BY id ASC.
RECURSIVE OrderById(_)
OrderById(S) ==
    IF S = {} THEN <<>>
    ELSE LET first == CHOOSE r \in S : \A q \in S : r.id <= q.id
         IN <<first>> \o OrderById(S \ {first})

\* The loop of ListTodos over the result rows: todos starts as a nil slice
\* and every row is appended to it.
ScanRows(rs) ==
    [nil |-> Len(rs) = 0, elems |-> [i \in 1..Len(rs) |-> ScanRow(rs[i])]]

\* Repository.ListTodos: a nil slice becomes an empty one before the return.
ListTodos(d, status, category) ==
    IF SelectFails(d) THEN [todos |-> [nil |-> TRUE, elems |-> <<>>], err |-> ErrQuery]
    ELSE LET conditions == Conditions(status, category)
             rs == OrderById({r \in d.rows : Where(r, conditions)})
             todos == ScanRows(rs)
         IN [todos |-> IF todos.nil THEN [nil |-> FALSE, elems |-> <<>>] ELSE todos,
             err |-> NoErr]

\* ----------------------------------------------------------------- inputs

\* A status and a category outside the enumerations.
BogusStatus == "archived"

BogusCategory == "urgent"

\* The fields a request may supply.
Fields == {"Title", "Description", "Status", "Category", "ProgressPercent"}

\* model.CreateTodoRequest values: "" is an omitted status or category, None
\* an omitted progress_percent.
AllCreateReqs ==
    [Title : {"a", ""}, Description : {"", "d"},
     Status : {"", StatusDone, BogusStatus},
     Category : {"", CategoryWork, BogusCategory},
     ProgressPercent : {None, Some(0), Some(50), Some(0 - 1)}]

\* The request of the spec's round trip: a title and nothing else.
PlainCreateReq ==
    [Title |-> "a", Description |-> "", Status |-> "", Category |-> "",
     ProgressPercent |-> None]

\* A request that supplies every field.
FullCreateReq ==
    [Title |-> "", Description |-> "d", Status |-> StatusDone,
     Category |-> CategoryWork, ProgressPercent |-> Some(50)]

\* The requests callers pass: those that differ from the plain one in at
\* most one field, the full one, and the full one with a progress_percent
\* out of range.
CreateReqs ==
    {r \in AllCreateReqs :
        Cardinality({f \in Fields : r[f] # PlainCreateReq[f]}) <= 1}
    \cup {FullCreateReq, [FullCreateReq EXCEPT !.ProgressPercent = Some(101)]}

\* model.UpdateTodoRequest values: None is a nil pointer.
AllUpdateReqs ==
    [Title : {None, Some(""), Some("b")},
     Description : {None, Some(""), Some("e")},
     Status : {None, Some(StatusInProgress), Some(""), Some(BogusStatus)},
     Category : {None, Some(CategoryOther), Some(BogusCategory)},
     ProgressPercent : {None, Some(0), Some(100), Some(101)}]

\* A request that supplies no field.
EmptyUpdateReq ==
    [Title |-> None, Description |-> None, Status |-> None, Category |-> None,
     ProgressPercent |-> None]

\* The column each request field is written to.
ColumnOf(f) ==
    CASE f = "Title" -> "title"
      [] f = "Description" -> "description"
      [] f = "Status" -> "status"
      [] f = "Category" -> "category"
      [] f = "ProgressPercent" -> "progress_percent"

\* The fields a request supplies.
Supplied(req) == {f \in Fields : req[f] # None}

\* A request that supplies every field.
FullUpdateReq ==
    [Title |-> Some("b"), Description |-> Some("e"),
     Status |-> Some(StatusInProgress), Category |-> Some(CategoryOther),
     ProgressPercent |-> Some(100)]

\* The full request cut down to the fields F: one request for every
\* combination of supplied fields.
SuppliedCombos ==
    {[f \in Fields |-> IF f \in F THEN FullUpdateReq[f] ELSE None] :
        F \in SUBSET Fields}

\* The requests callers pass: those that supply no field or one field, the
\* full one, and the full one with a progress_percent out of range.
UpdateReqs ==
    {r \in AllUpdateReqs : Cardinality(Supplied(r)) <= 1}
    \cup {FullUpdateReq, [FullUpdateReq EXCEPT !.ProgressPercent = Some(0 - 1)]}

\* The ids callers pass: every rowid the store can assign and one beyond.
IdInputs == 1..(MaxId + 1)

\* The filters callers pass to ListTodos.
StatusFilters ==
    {None, Some(StatusPending), Some(StatusDone), Some(BogusStatus), Some("")}

CategoryFilters ==
    {None, Some(CategoryPersonal), Some(CategoryWork), Some(BogusCategory)}

\* ------------------------------------------------------------------ state

VARIABLES
    db,        \* the store file
    now,       \* the wall clock, in ticks
    opened,    \* main holds the repository New returned and serves requests
    migrated,  \* Migrate has returned nil in this process
    deleted,   \* the ids DeleteTodo has removed
    writes,    \* CRUD statements that changed the store
    calls      \* per caller, the repository call it is in the middle of

vars == <<db, now, opened, migrated, deleted, writes, calls>>

\* The wall clock when main starts: one second after the legacy rows were
\* written.
StartTick == TicksPerSec

\* A row written by the service before the category column existed.
LegacyRow(i) ==
    [id |-> i, title |-> "a", description |-> "d",
     status |-> IF i = 1 THEN StatusDone ELSE StatusPending,
     progress_percent |-> IF i = 1 THEN 50 ELSE 0,
     created_at |-> 0, updated_at |-> 0]

\* A store file left by the service before the category column existed: the
\* table of Migrate's CREATE TABLE statement with the rows 1..n.
LegacyStore(n) ==
    [table |-> TRUE, columns |-> BaseColumns, checks |-> BaseChecks,
     indexes |-> {IdxStatus}, rows |-> {LegacyRow(i) : i \in 1..n}, seq |-> n]

\* The goroutines that serve requests.
Callers == {"g1", "g2"}

\* A caller between two repository calls.
Idle == [op |-> "idle", id |-> 0]

\* Before main calls New: no store file yet, or one of an earlier version
\* with a full table.
Init ==
    /\ db \in {EmptyStore, LegacyStore(MaxId)}
    /\ now = StartTick
    /\ opened = FALSE
    /\ migrated = FALSE
    /\ deleted = {}
    /\ writes = 0
    /\ calls = [g \in Callers |-> Idle]

\* A CRUD statement that leaves the store as d2: one of at most MaxWrites
\* that change it.
Wrote(d2) ==
    /\ d2 # db => writes < MaxWrites
    /\ db' = d2
    /\ writes' = IF d2 # db THEN writes + 1 ELSE writes

Tick ==
    /\ now < StartTick + MaxTick
    /\ now' = now + 1
    /\ UNCHANGED <<db, opened, migrated, deleted, writes, calls>>

\* main: New on the store file, at whatever step it fails; os.Exit(1) on an
\* error, the repository handed to the handlers otherwise.  A process that
\* exited leaves the store as its statements left it, and main can be run
\* again.
CallNew ==
    /\ ~opened
    /\ \E f \in Faults :
         LET n == New(db, f)
         IN /\ db' = n.db
            /\ opened' = (n.err = NoErr)
            /\ migrated' = n.migrated
    /\ UNCHANGED <<now, deleted, writes, calls>>

\* Repository.Migrate called again on the open repository.
CallMigrate ==
    /\ opened
    /\ \E f \in Faults : db' = Migrate(db, f).db
    /\ UNCHANGED <<now, opened, migrated, deleted, writes, calls>>

CallCreateTodo ==
    /\ opened
    /\ NextRowid(db) <= MaxId
    /\ \E req \in CreateReqs : Wrote(CreateTodo(db, now, req).db)
    /\ UNCHANGED <<now, opened, migrated, deleted, calls>>

\* Repository.GetTodo reads: it returns a Todo or an error and writes nothing.
CallGetTodo ==
    /\ opened
    /\ \E id \in IdInputs : GetTodo(db, id).err \in {NoErr, ErrNotFound}
    /\ UNCHANGED vars

\* Repository.ListTodos reads: it returns a slice and writes nothing.
CallListTodos ==
    /\ opened
    /\ \E status \in StatusFilters, category \in CategoryFilters :
         ListTodos(db, status, category).err = NoErr
    /\ UNCHANGED vars

CallUpdateTodo ==
    /\ opened
    /\ \E id \in IdInputs, req \in UpdateReqs :
         Wrote(UpdateTodo(db, now, id, req).db)
    /\ UNCHANGED <<now, opened, migrated, deleted, calls>>

CallDeleteTodo ==
    /\ opened
    /\ \E id \in IdInputs :
         LET x == DeleteTodo(db, id)
         IN /\ Wrote(x.db)
            /\ deleted' = IF x.err = NoErr THEN deleted \cup {id} ELSE deleted
    /\ UNCHANGED <<now, opened, migrated, calls>>

\* One caller at a time, each call run from its first statement to its last.
Next ==
    \/ Tick
    \/ CallNew
    \/ CallMigrate
    \/ CallCreateTodo
    \/ CallGetTodo
    \/ CallListTodos
    \/ CallUpdateTodo
    \/ CallDeleteTodo

Spec == Init /\ [][Next]_vars

\* ----------------------------------------------------------------- claims

\* C1: on an open repository, for every id that identifies no row, GetTodo,
\* UpdateTodo with any combination of supplied fields (none included) and
\* DeleteTodo each return ErrNotFound and leave the store unchanged.
C1_NotFoundPropagation ==
    opened =>
      \A id \in IdInputs :
        id \notin Rowids(db) =>
          /\ GetTodo(db, id).err = ErrNotFound
          /\ \A req \in UpdateReqs \cup SuppliedCombos :
               LET u == UpdateTodo(db, now, id, req)
               IN u.err = ErrNotFound /\ u.db = db
          /\ LET x == DeleteTodo(db, id)
             IN x.err = ErrNotFound /\ x.db = db

\* C1 witness: rows are stored, an id that once identified a row identifies
\* none, and an update of it with every field supplied returns ErrNotFound.
C1_Witness ==
    /\ opened
    /\ db.rows # {}
    /\ \E id \in deleted :
         /\ id \notin Rowids(db)
         /\ UpdateTodo(db, now, id, FullUpdateReq).err = ErrNotFound
         /\ GetTodo(db, id).err = ErrNotFound

\* C2: a successful UpdateTodo sets, on row id, every supplied field to the
\* supplied value (an empty string and 0 included) and changes no other
\* column of it but updated_at; the row keeps its id and created_at, every
\* other row and the rest of the store are unchanged.
C2_PartialUpdateFrame ==
    opened =>
      \A id \in IdInputs, req \in UpdateReqs :
        LET u == UpdateTodo(db, now, id, req)
        IN u.err = NoErr =>
             \E old \in db.rows, new \in u.db.rows :
               /\ old.id = id /\ new.id = id
               /\ \A f \in Fields :
                    new[ColumnOf(f)] =
                      IF req[f] # None THEN req[f][1] ELSE old[ColumnOf(f)]
               /\ new.created_at = old.created_at
               /\ u.db.rows \ {new} = db.rows \ {old}
               /\ [u.db EXCEPT !.rows = {}] = [db EXCEPT !.rows = {}]
               /\ u.todo = ScanRow(new)

\* C2 witness: beside another row, a row whose status only an update can
\* have set still has the title and description it was created with.
C2_Witness ==
    /\ opened
    /\ Cardinality(db.rows) >= 2
    /\ \E r \in db.rows :
         /\ r.status = StatusInProgress
         /\ r.title = "a" /\ r.description = "d"

\* C3: every successful UpdateTodo that supplies a field leaves updated_at
\* strictly later than it was and strictly later than created_at, whenever
\* it runs.
C3_UpdatedAtStrictlyAdvances ==
    opened =>
      \A id \in IdInputs, req \in UpdateReqs :
        LET u == UpdateTodo(db, now, id, req)
            before == GetTodo(db, id)
        IN (Supplied(req) # {} /\ u.err = NoErr) =>
             /\ u.todo.UpdatedAt > before.todo.UpdatedAt
             /\ u.todo.UpdatedAt > u.todo.CreatedAt

\* C4: UpdateTodo with no field supplied on an existing row writes nothing:
\* the store, the row's updated_at included, is unchanged and the call
\* returns what GetTodo returns in that state.
C4_EmptyUpdateIsRead ==
    opened =>
      \A id \in Rowids(db) :
        LET u == UpdateTodo(db, now, id, EmptyUpdateReq)
        IN /\ u.db = db
           /\ u.err = NoErr
           /\ u.todo = GetTodo(db, id).todo
           /\ u.todo.ID = id
           /\ \E r \in db.rows :
                r.id = id /\ u.todo.UpdatedAt = r.updated_at

\* C4 witness: a row whose last mutation lies a second or more back, so that
\* a write of updated_at would show.
C4_Witness ==
    /\ opened
    /\ \E r \in db.rows :
         /\ DatetimeNow(now) > r.updated_at
         /\ UpdateTodo(db, now, r.id, EmptyUpdateReq).todo.UpdatedAt = r.updated_at

\* C5: an id on which DeleteTodo has succeeded identifies no row in any later
\* state: GetTodo of it returns ErrNotFound, and every successful CreateTodo
\* is assigned an id greater than every id assigned before, the ids of
\* deleted rows included.
C5_IdNeverReissued ==
    opened =>
      /\ \A id \in deleted :
           id \notin Rowids(db) /\ GetTodo(db, id).err = ErrNotFound
      /\ \A req \in CreateReqs :
           LET c == CreateTodo(db, now, req)
           IN c.err = NoErr =>
                /\ c.todo.ID \in Rowids(c.db)
                /\ \A i \in Rowids(db) \cup deleted : c.todo.ID > i

\* C5 witness: after a delete, a row stored under an id greater than the
\* deleted one while no smaller id is in use.
C5_Witness ==
    /\ opened
    /\ \E id \in deleted :
         /\ GetTodo(db, id).err = ErrNotFound
         /\ db.rows # {}
         /\ \A r \in db.rows : r.id > id

\* C6: in every store state ListTodos returns exactly the rows that satisfy
\* every filter that is not nil, each once, in strictly ascending id order,
\* and a slice that is not nil, of length 0 when no row matches.
C6_ListFilterOrder ==
    opened =>
      \A status \in StatusFilters, category \in CategoryFilters :
        LET l == ListTodos(db, status, category)
            want == {r \in db.rows :
                       /\ status # None => r.status = status[1]
                       /\ category # None => r.category = category[1]}
            n == Len(l.todos.elems)
        IN /\ l.err = NoErr
           /\ ~l.todos.nil
           /\ n = Cardinality(want)
           /\ {l.todos.elems[i] : i \in 1..n} = {ScanRow(r) : r \in want}
           /\ \A i \in 1..n, j \in 1..n :
                i < j => l.todos.elems[i].ID < l.todos.elems[j].ID

\* C6 witness: two rows of which exactly one passes both filters, and a
\* filter that no row passes.
C6_Witness ==
    /\ opened
    /\ Cardinality(db.rows) = 2
    /\ Len(ListTodos(db, None, None).todos.elems) = 2
    /\ Len(ListTodos(db, Some(StatusPending), Some(CategoryPersonal)).todos.elems) = 1
    /\ Len(ListTodos(db, Some(StatusDone), None).todos.elems) = 1
    /\ ListTodos(db, Some(BogusStatus), None).todos = [nil |-> FALSE, elems |-> <<>>]

\* C7: a successful CreateTodo returns the record GetTodo then returns for
\* its id: the title and description supplied, status pending, category
\* personal and progress_percent 0 unless supplied, created_at = updated_at.
C7_CreateRoundTrip ==
    opened =>
      \A req \in CreateReqs :
        LET c == CreateTodo(db, now, req)
        IN c.err = NoErr =>
             /\ GetTodo(c.db, c.todo.ID) = [todo |-> c.todo, err |-> NoErr]
             /\ c.todo.ID \notin Rowids(db)
             /\ c.todo.Title = req.Title
             /\ c.todo.Description = req.Description
             /\ c.todo.Status =
                  (IF req.Status = "" THEN StatusPending ELSE req.Status)
             /\ c.todo.Category =
                  (IF req.Category = "" THEN CategoryPersonal ELSE req.Category)
             /\ c.todo.ProgressPercent =
                  (IF req.ProgressPercent = None THEN 0 ELSE req.ProgressPercent[1])
             /\ c.todo.CreatedAt = c.todo.UpdatedAt
             /\ c.todo.CreatedAt = DatetimeNow(now)

\* C7 witness: the store after the plain request on an empty table, and the
\* record GetTodo returns for it.
C7_Witness ==
    /\ opened
    /\ writes = 1
    /\ GetTodo(db, 1) =
         [todo |-> [ID |-> 1, Title |-> "a", Description |-> "",
                    Status |-> StatusPending, Category |-> CategoryPersonal,
                    ProgressPercent |-> 0, CreatedAt |-> DatetimeNow(StartTick),
                    UpdatedAt |-> DatetimeNow(StartTick)],
          err |-> NoErr]

\* C8: on a store on which Migrate has succeeded, Migrate returns no error
\* and leaves schema and rows as they are, whatever CRUD calls came between.
C8_MigrateIdempotent ==
    opened => Migrate(db, NoFault) = [db |-> db, err |-> NoErr]

\* C8 witness: a migrated store that CRUD calls have since changed and that
\* holds rows, on which Migrate runs again without error.
C8_Witness ==
    /\ opened
    /\ writes = MaxWrites
    /\ db.rows # {}
    /\ Migrate(db, NoFault).err = NoErr

\* C9: when New migrates a table that has only the original columns, in a
\* run that succeeds or one that fails after its ALTER statement, the
\* table gets the category column, every row it held reads category
\* personal, and no row is removed, added or changed in another column.
C9_AdditiveMigration ==
    [][(/\ ~opened /\ db.table /\ db.columns = BaseColumns
        /\ (opened' \/ db'.columns # db.columns)) =>
         /\ db'.columns = BaseColumns \cup {"category"}
         /\ Cardinality(db'.rows) = Cardinality(db.rows)
         /\ \A r \in db.rows :
              \E q \in db'.rows :
                /\ q.category = CategoryPersonal
                /\ \A col \in BaseColumns : q[col] = r[col]
         /\ db'.seq = db.seq]_vars

\* C9 witness: the migrated legacy store with its rows, before any write.
C9_Witness ==
    /\ opened
    /\ writes = 0
    /\ Cardinality(db.rows) = MaxId
    /\ "category" \in db.columns
    /\ \A r \in db.rows : r.category = CategoryPersonal /\ r.title = "a"

\* A stored row within the enumerations and the range, not updated before
\* it was created.
RowInRange(r) ==
    /\ r.status \in ValidStatuses
    /\ r.category \in ValidCategories
    /\ r.progress_percent >= 0 /\ r.progress_percent <= 100
    /\ r.updated_at >= r.created_at

\* A create request that carries a status, category or progress_percent
\* outside the enumerations or the range.
CreateOutOfRange(req) ==
    \/ req.Status # "" /\ req.Status \notin ValidStatuses
    \/ req.Category # "" /\ req.Category \notin ValidCategories
    \/ req.ProgressPercent # None
         /\ (req.ProgressPercent[1] < 0 \/ req.ProgressPercent[1] > 100)

\* An update request that carries such a value.
UpdateOutOfRange(req) ==
    \/ req.Status # None /\ req.Status[1] \notin ValidStatuses
    \/ req.Category # None /\ req.Category[1] \notin ValidCategories
    \/ req.ProgressPercent # None
         /\ (req.ProgressPercent[1] < 0 \/ req.ProgressPercent[1] > 100)

\* C10 as claimed: every stored row is within the enumerations and the
\* range with updated_at >= created_at, and every CreateTodo or UpdateTodo
\* that carries an out-of-range value returns an error other than
\* ErrNotFound and leaves the store unchanged.
C10_AsClaimed ==
    opened =>
      /\ \A r \in db.rows : RowInRange(r)
      /\ \A req \in CreateReqs :
           CreateOutOfRange(req) =>
             LET c == CreateTodo(db, now, req)
             IN c.err \notin {NoErr, ErrNotFound} /\ c.db = db
      /\ \A id \in IdInputs, req \in UpdateReqs :
           UpdateOutOfRange(req) =>
             LET u == UpdateTodo(db, now, id, req)
             IN u.err \notin {NoErr, ErrNotFound} /\ u.db = db

\* C10 amended: every stored row is within the enumerations and the range
\* with updated_at >= created_at; a CreateTodo that carries an out-of-range
\* value, and an UpdateTodo that carries one for an id that identifies a
\* row, returns an error other than ErrNotFound; an UpdateTodo that carries
\* one for an id that identifies no row returns ErrNotFound; each leaves the
\* store unchanged.
C10_StoreConstraints ==
    opened =>
      /\ \A r \in db.rows : RowInRange(r)
      /\ \A req \in CreateReqs :
           CreateOutOfRange(req) =>
             LET c == CreateTodo(db, now, req)
             IN c.err \notin {NoErr, ErrNotFound} /\ c.db = db
      /\ \A id \in IdInputs, req \in UpdateReqs :
           UpdateOutOfRange(req) =>
             LET u == UpdateTodo(db, now, id, req)
             IN /\ u.db = db
                /\ IF id \in Rowids(db)
                   THEN u.err \notin {NoErr, ErrNotFound}
                   ELSE u.err = ErrNotFound

\* C10 witness: after writes, a row updated a second or more after it was
\* created, on which an out-of-range update fails, while an out-of-range
\* create fails and so does an out-of-range update of an id without a row.
C10_Witness ==
    /\ opened
    /\ writes > 0
    /\ \E r \in db.rows :
         /\ r.updated_at > r.created_at
         /\ UpdateTodo(db, now, r.id,
                       [FullUpdateReq EXCEPT !.ProgressPercent = Some(101)]).err
              = ErrUpdate
    /\ CreateTodo(db, now, [PlainCreateReq EXCEPT !.Status = BogusStatus]).err
         = ErrInsert
    /\ \E id \in IdInputs :
         /\ id \notin Rowids(db)
         /\ UpdateTodo(db, now, id,
                       [EmptyUpdateReq EXCEPT !.Status = Some(BogusStatus)]).err
              = ErrNotFound

\* C11: whenever New has returned a repository, the table has its eight
\* columns and both indexes exist, whatever an earlier run of New that
\* failed part-way left in the store.
C11_SchemaComplete ==
    opened =>
      /\ db.table
      /\ db.columns = BaseColumns \cup {"category"}
      /\ {IdxStatus, IdxCategory} \subseteq db.indexes

\* The steps New takes on store d: the ALTER and the category index only
\* when the inspection finds no category column.
StepsTaken(d) ==
    {StepMkdir, StepOpen, StepWAL, StepCreateTable, StepCreateIndexStatus,
     StepTableInfo}
    \cup (IF "category" \in d.columns THEN {}
          ELSE {StepAlter, StepCreateIndexCategory})

\* C12: New returns an error and a nil repository when a step it takes
\* fails, and a repository only after Migrate returned nil; main serves
\* requests, and a CRUD statement runs, only after a Migrate that succeeded.
C12_NewFailsClosed ==
    /\ opened => migrated
    /\ writes > 0 => opened /\ migrated
    /\ ~opened =>
         \A f \in Faults :
           LET n == New(db, f)
           IN /\ f \in StepsTaken(db) => n.err # NoErr
              /\ n.err # NoErr => n.repo = NilRepo /\ ~n.migrated
              /\ n.err = NoErr => n.repo = OpenRepo /\ n.migrated

\* C12 witness: a run of New failed after its ALTER statement; the store
\* keeps the column without its index and main serves nothing.
C12_Witness ==
    /\ ~opened /\ ~migrated /\ writes = 0
    /\ "category" \in db.columns /\ IdxCategory \notin db.indexes
    /\ db.rows # {}
    /\ New(db, StepTableInfo).repo = NilRepo

\* ------------------------------------------------------ concurrent callers

\* The requests the concurrent callers pass: a create that the store takes
\* and one it rejects, an update of one field and one the store rejects.
ConcCreateReqs ==
    {PlainCreateReq, [FullCreateReq EXCEPT !.ProgressPercent = Some(101)]}

ConcUpdateReqs ==
    {[EmptyUpdateReq EXCEPT !.Title = Some("b")],
     [EmptyUpdateReq EXCEPT !.Status = Some(BogusStatus)]}

\* Caller g runs the INSERT of CreateTodo: on an error it returns it, else
\* it goes on to re-read the id the INSERT assigned.
CreateInsertStmt(g) ==
    /\ opened /\ calls[g] = Idle
    /\ NextRowid(db) <= MaxId
    /\ \E req \in ConcCreateReqs :
         LET ins == CreateTodoInsert(db, now, req)
         IN /\ Wrote(ins.db)
            /\ calls' = IF ins.err # NoErr THEN calls
                        ELSE [calls EXCEPT ![g] = [op |-> "create", id |-> ins.id]]
    /\ UNCHANGED <<now, opened, migrated, deleted>>

\* Caller g runs the UPDATE of UpdateTodo: on an error or zero affected rows
\* it returns, else it goes on to re-read the id.
UpdateStmt(g) ==
    /\ opened /\ calls[g] = Idle
    /\ \E id \in IdInputs, req \in ConcUpdateReqs :
         LET upd == UpdateTodoExec(db, now, id, req)
         IN /\ Wrote(upd.db)
            /\ calls' = IF upd.err # NoErr \/ upd.affected = 0 THEN calls
                        ELSE [calls EXCEPT ![g] = [op |-> "update", id |-> id]]
    /\ UNCHANGED <<now, opened, migrated, deleted>>

\* Caller g runs the GetTodo that ends CreateTodo and UpdateTodo, and
\* returns what it returns.
RereadStmt(g) ==
    /\ opened /\ calls[g] # Idle
    /\ GetTodo(db, calls[g].id).err \in {NoErr, ErrNotFound}
    /\ calls' = [calls EXCEPT ![g] = Idle]
    /\ UNCHANGED <<db, now, opened, migrated, deleted, writes>>

\* Caller g runs the one statement of DeleteTodo.
DeleteStmt(g) ==
    /\ opened /\ calls[g] = Idle
    /\ \E id \in IdInputs :
         LET x == DeleteTodo(db, id)
         IN /\ Wrote(x.db)
            /\ deleted' = IF x.err = NoErr THEN deleted \cup {id} ELSE deleted
    /\ UNCHANGED <<now, opened, migrated, calls>>

\* The callers' statements in any order: the one connection runs one
\* statement at a time and is free between two statements of a call.
ConcNext ==
    \/ Tick
    \/ CallNew
    \/ \E g \in Callers : CreateInsertStmt(g)
    \/ \E g \in Callers : UpdateStmt(g)
    \/ \E g \in Callers : RereadStmt(g)
    \/ \E g \in Callers : DeleteStmt(g)

ConcSpec == Init /\ [][ConcNext]_vars

\* C13: a CreateTodo whose INSERT added a row, and an UpdateTodo whose
\* UPDATE affected a row, returns no error, however the statements of other
\* callers fall between its own.
C13_NoPartialSuccess ==
    [][\A g \in Callers :
         (calls[g] # Idle /\ calls'[g] = Idle) =>
             GetTodo(db, calls[g].id).err = NoErr]_vars

\* ---------------------------------------------------------- HTTP handlers

StatusOK == "200 OK"

StatusCreated == "201 Created"

StatusNoContent == "204 No Content"

StatusBadRequest == "400 Bad Request"

StatusNotFound == "404 Not Found"

StatusInternalServerError == "500 Internal Server Error"

\* TodoHandler.CreateTodo at clock t: the four checks of the body, then the
\* repository.
HandlerCreateTodo(d, t, body) ==
    IF body.Title = "" THEN [db |-> d, status |-> StatusBadRequest]
    ELSE IF body.Status # "" /\ body.Status \notin ValidStatuses
    THEN [db |-> d, status |-> StatusBadRequest]
    ELSE IF body.Category # "" /\ body.Category \notin ValidCategories
    THEN [db |-> d, status |-> StatusBadRequest]
    ELSE IF /\ body.ProgressPercent # None
            /\ (body.ProgressPercent[1] < 0 \/ body.ProgressPercent[1] > 100)
    THEN [db |-> d, status |-> StatusBadRequest]
    ELSE LET c == CreateTodo(d, t, body)
         IN [db |-> c.db,
             status |-> IF c.err # NoErr THEN StatusInternalServerError
                        ELSE StatusCreated]

\* TodoHandler.UpdateTodo at clock t: the three checks of the body (status,
\* category, progress_percent), then the repository.
HandlerUpdateTodo(d, t, id, body) ==
    IF body.Status # None /\ body.Status[1] \notin ValidStatuses
    THEN [db |-> d, status |-> StatusBadRequest]
    ELSE IF body.Category # None /\ body.Category[1] \notin ValidCategories
    THEN [db |-> d, status |-> StatusBadRequest]
    ELSE IF /\ body.ProgressPercent # None
            /\ (body.ProgressPercent[1] < 0 \/ body.ProgressPercent[1] > 100)
    THEN [db |-> d, status |-> StatusBadRequest]
    ELSE LET u == UpdateTodo(d, t, id, body)
         IN [db |-> u.db,
             status |-> IF u.err = ErrNotFound THEN StatusNotFound
                        ELSE IF u.err # NoErr THEN StatusInternalServerError
                        ELSE StatusOK]

\* TodoHandler.DeleteTodo.
HandlerDeleteTodo(d, id) ==
    LET x == DeleteTodo(d, id)
    IN [db |-> x.db,
        status |-> IF x.err = ErrNotFound THEN StatusNotFound
                   ELSE IF x.err # NoErr THEN StatusInternalServerError
                   ELSE StatusNoContent]

\* POST /api/v1/todos.
HttpCreateTodo ==
    /\ opened
    /\ NextRowid(db) <= MaxId
    /\ \E body \in CreateReqs : Wrote(HandlerCreateTodo(db, now, body).db)
    /\ UNCHANGED <<now, opened, migrated, deleted, calls>>

\* PUT /api/v1/todos/{id}.
HttpUpdateTodo ==
    /\ opened
    /\ \E id \in IdInputs, body \in UpdateReqs :
         Wrote(HandlerUpdateTodo(db, now, id, body).db)
    /\ UNCHANGED <<now, opened, migrated, deleted, calls>>

\* DELETE /api/v1/todos/{id}.
HttpDeleteTodo ==
    /\ opened
    /\ \E id \in IdInputs :
         LET x == HandlerDeleteTodo(db, id)
         IN /\ Wrote(x.db)
            /\ deleted' = IF x.status = StatusNoContent
                          THEN deleted \cup {id} ELSE deleted
    /\ UNCHANGED <<now, opened, migrated, calls>>

\* Every request through the handlers, one at a time.
HttpNext ==
    \/ Tick
    \/ CallNew
    \/ HttpCreateTodo
    \/ HttpUpdateTodo
    \/ HttpDeleteTodo

HttpSpec == Init /\ [][HttpNext]_vars

\* C14: no row in the store has an empty title, whatever requests the
\* handlers have served.
C14_TitlesNonEmpty ==
    \A r \in db.rows : r.title # ""

====
